---- MODULE Spec2Model ----
(***************************************************************************)
(* Model of the fragrance recommender core: the seven fit functions, the   *)
(* weighted aggregator, the greedy diversified selector recommend(user,k)  *)
(* and the explainer explain_pick.                                         *)
(*                                                                         *)
(* Numbers.  The program computes in binary floating point.  The model     *)
(* computes the same expressions exactly, in fixed point: a score x is the *)
(* integer x * SCALE.  SCALE is a multiple of 1000 (three decimals), of    *)
(* 100 (the weights and the catalog's two-decimal attributes) and of       *)
(* 1..6 (the aspiration ratio overlap / len), so every division the        *)
(* program performs on the modelled inputs is exact.  round(x, 3) rounds   *)
(* to the nearest thousandth; when x lies exactly halfway between two      *)
(* thousandths in decimal, the float the program holds is a hair above or  *)
(* below the tie and the program rounds up or down accordingly: fpTieUp    *)
(* is that outcome, fixed per behaviour, both values explored.  Totals are  *)
(* compared exactly; for the modelled profiles the order of the picks is   *)
(* the order the program produces over the default catalog, and each score *)
(* the program reports is the one of the two tie outcomes.                 *)
(***************************************************************************)
EXTENDS Integers, Sequences, FiniteSets, TLC

(* ------------------------------ bounds -------------------------------- *)
\* largest k a caller passes to recommend (the catalog has 9 items)
MaxK == 10
\* longest aspiration list drawn for the fit-function probes
MaxAspLen == 3

(* --------------------------- fixed point ------------------------------ *)
SCALE == 1000 * 60
One == SCALE
Milli == SCALE \div 1000
\* n hundredths, e.g. Pct(45) is 0.45
Pct(n) == n * (SCALE \div 100)

Abs(x) == IF x < 0 THEN -x ELSE x
Max(a, b) == IF a >= b THEN a ELSE b
Min(a, b) == IF a <= b THEN a ELSE b
Range(s) == {s[i] : i \in 1..Len(s)}

\* round(x, 3) for x >= 0
round3(x, tieUp) ==
    LET q == x \div Milli
        r == x % Milli
    IN  IF 2 * r < Milli THEN q * Milli
        ELSE IF 2 * r > Milli THEN (q + 1) * Milli
        ELSE IF tieUp THEN (q + 1) * Milli ELSE q * Milli

(* ------------------------------ helpers ------------------------------- *)
clamp01(x) == Max(0, Min(One, x))

closeness_noabs(x, y) == One - (x - y)
closeness(x, y) == One - Abs(x - y)

map_intensity_default1(intensity) ==
    CASE intensity = "skin" -> 1
      [] intensity = "moderate" -> 3
      [] intensity = "trail" -> 5
      [] OTHER -> 1
map_intensity_to_sillage(intensity) ==
    CASE intensity = "skin" -> 1
      [] intensity = "moderate" -> 3
      [] intensity = "trail" -> 5
      [] OTHER -> 3

map_longevity_goal(goal) ==
    CASE goal = "short" -> 2
      [] goal = "workday" -> 4
      [] goal = "allday" -> 5
      [] OTHER -> 4

(* ------------------------- scoring components ------------------------- *)
climate_fit(user, f) ==
    IF user.climate = "mixed"
    THEN (IF Len(f.seasonality) >= 2 THEN One ELSE Pct(70))
    ELSE (IF user.climate \in Range(f.seasonality) THEN One ELSE Pct(30))

occasion_fit(user, f) ==
    IF user.occasion \in Range(f.occasions) THEN One
    ELSE IF "everyday" \in Range(f.occasions) THEN Pct(60) ELSE Pct(20)

intensity_fit(user, f) ==
    LET target == map_intensity_to_sillage(user.intensity)
    IN  clamp01(One - Abs(((f.sillage - target) * One) \div 4))

longevity_fit(user, f) ==
    LET target == map_longevity_goal(user.longevity_goal)
    IN  clamp01(One - Abs(((f.longevity - target) * One) \div 4))

latent_sim(user, f) ==
    LET a == closeness(user.weight_pref, f.weight)
        b == closeness(user.brightness_pref, f.brightness)
    IN  (a \div 2) + (b \div 2)

aspiration_fit(user, f) ==
    IF Len(user.aspiration) = 0 THEN Pct(50)
    ELSE LET overlap == Cardinality(Range(user.aspiration) \cap Range(f.archetypes))
         IN  clamp01((overlap * One) \div Max(1, Len(user.aspiration)))

diversity_bonus_none_first(already, candidate) ==
    IF Len(already) = 0 THEN 0
    ELSE LET have == UNION {Range(already[i].archetypes) : i \in 1..Len(already)}
             new == Range(candidate.archetypes) \ have
         IN  IF new # {} THEN Pct(5) ELSE 0
diversity_bonus(already, candidate) ==
    IF Len(already) = 0 THEN Pct(5)
    ELSE LET have == UNION {Range(already[i].archetypes) : i \in 1..Len(already)}
             new == Range(candidate.archetypes) \ have
         IN  IF new # {} THEN Pct(5) ELSE 0

(* ------------------------------ catalog ------------------------------- *)
Fragrance(id, brand, name, weight, brightness, sillage, longevity, seasonality, occasions, archetypes, price) ==
    [id |-> id, brand |-> brand, name |-> name, weight |-> Pct(weight),
     brightness |-> Pct(brightness), sillage |-> sillage,
     longevity |-> longevity, seasonality |-> seasonality,
     occasions |-> occasions, archetypes |-> archetypes, price |-> price]

CATALOG == <<
    Fragrance("1", "Chanel", "Bleu de Chanel", 45, 35, 3, 4, <<"mild", "hot">>,
              <<"office", "everyday", "date">>, <<"refined", "approachable">>, 110),
    Fragrance("2", "Dior", "Sauvage EDT", 50, 40, 4, 4, <<"hot", "mild">>,
              <<"everyday", "date">>, <<"bold", "youthful">>, 100),
    Fragrance("3", "Le Labo", "Santal 33", 70, 60, 4, 5, <<"mild", "cool">>,
              <<"office", "date", "formal">>, <<"adventurous", "sensual">>, 220),
    Fragrance("4", "MFK", "Baccarat Rouge 540", 80, 85, 5, 5, <<"cool", "mild">>,
              <<"formal", "date">>, <<"bold", "mysterious", "elegant">>, 300),
    Fragrance("5", "Chanel", "No.5 EDP", 65, 70, 3, 5, <<"cool", "mild">>,
              <<"formal", "office">>, <<"elegant", "refined">>, 200),
    Fragrance("6", "Tom Ford", "Black Orchid", 85, 80, 5, 5, <<"cool">>,
              <<"date", "formal">>, <<"mysterious", "bold", "sensual">>, 180),
    Fragrance("7", "Jo Malone", "Wood Sage & Sea Salt", 25, 15, 2, 3, <<"hot", "mild">>,
              <<"office", "everyday">>, <<"approachable", "refined">>, 120),
    Fragrance("8", "Prada", "Infusion d'Iris", 35, 30, 2, 4, <<"mild", "cool">>,
              <<"office", "formal">>, <<"elegant", "refined">>, 150),
    Fragrance("9", "Giorgio Armani", "Acqua di Gio Profondo", 40, 25, 3, 4, <<"hot", "mild">>,
              <<"everyday", "office">>, <<"approachable", "youthful">>, 120) >>

full_name(f) == <<f.brand, f.name>>

(* ---------------------------- master score ---------------------------- *)
\* the weights in hundredths
WEIGHTS_heavy_diversity ==
    [climate |-> 20, occasion |-> 15, intensity |-> 15, longevity |-> 15,
     latent |-> 20, aspiration |-> 10, diversity |-> 10]
WEIGHTS ==
    [climate |-> 20, occasion |-> 15, intensity |-> 15, longevity |-> 15,
     latent |-> 20, aspiration |-> 10, diversity |-> 5]

Factors == <<"climate", "occasion", "intensity", "longevity", "latent",
             "aspiration", "diversity">>

\* sum(w[k] * p[k] for k in WEIGHTS), w in hundredths
WeightedSum(w, p) ==
    LET Acc[n \in 0..Len(Factors)] ==
            IF n = 0 THEN 0 ELSE Acc[n - 1] + w[Factors[n]] * p[Factors[n]]
    IN  Acc[Len(Factors)] \div 100

score_user_to_fragrance(user, f, picked) ==
    LET parts == [climate |-> climate_fit(user, f),
                  occasion |-> occasion_fit(user, f),
                  intensity |-> intensity_fit(user, f),
                  longevity |-> longevity_fit(user, f),
                  latent |-> latent_sim(user, f),
                  aspiration |-> aspiration_fit(user, f),
                  diversity |-> diversity_bonus(picked, f)]
        total == WeightedSum(WEIGHTS, parts)
    IN  [climate |-> parts.climate, occasion |-> parts.occasion,
         intensity |-> parts.intensity, longevity |-> parts.longevity,
         latent |-> parts.latent, aspiration |-> parts.aspiration,
         diversity |-> parts.diversity, total |-> total]

(* ------------------------------ explainer ----------------------------- *)
\* the pieces the f-string interpolates, in order
explain_pick(u, r) ==
    LET mood == IF u.intensity = "skin" THEN "skin-close"
                ELSE IF u.intensity = "moderate" THEN "moderately projecting"
                ELSE "leaves a trail"
        asp == IF Len(u.aspiration) > 0 THEN u.aspiration ELSE <<"your style">>
    IN  [occasion |-> u.occasion, climate |-> u.climate, mood |-> mood,
         longevity_goal |-> u.longevity_goal, asp |-> asp]

(* ------------------------------- state -------------------------------- *)
VARIABLES
    catalog,       \* the module-level list CATALOG
    fpTieUp,       \* how round(x, 3) resolves an exact decimal tie
    pc,            \* "idle", "loop" (inside recommend), "returned", "shown"
    user, k,       \* the arguments of the running recommend call
    i,             \* completed iterations of "for _ in range(k)"
    picked, candidates, results,   \* the locals of recommend
    outcome,       \* "none", "returned" or "raised"
    explanations,  \* what the page wrote for each result
    memo,          \* <<>> or <<a remembered earlier call and what it returned>>
    probe,         \* inputs of a single scoring call (fit-function runs)
    probeParts     \* <<>> or <<the dict score_user_to_fragrance returned>>

vars == <<catalog, fpTieUp, pc, user, k, i, picked, candidates, results,
          outcome, explanations, memo, probe, probeParts>>

(* --------------------------- input domains ---------------------------- *)
UserProfile(climate, occasion, intensity, longevity_goal, weight_pref, brightness_pref, aspiration) ==
    [climate |-> climate, occasion |-> occasion, intensity |-> intensity,
     longevity_goal |-> longevity_goal, weight_pref |-> Pct(weight_pref),
     brightness_pref |-> Pct(brightness_pref), aspiration |-> aspiration]

\* the profile of the demo run
DemoUser == UserProfile("mild", "office", "skin", "workday", 40, 35,
                        <<"elegant", "mysterious">>)
TrailUser == UserProfile("cool", "date", "trail", "allday", 80, 80, <<>>)
MixedUser == UserProfile("mixed", "everyday", "moderate", "short", 30, 20,
                         <<"approachable">>)
\* two catalog items score the same in the first round
TieUser == UserProfile("hot", "office", "skin", "workday", 0, 50, <<>>)
\* no categorical field carries a value the quiz offers
OddUser == UserProfile("tropical", "brunch", "loud", "forever", 50, 50,
                       <<"elegant">>)

Users == {DemoUser, TrailUser, MixedUser, TieUser, OddUser}
\* a negative k, the small ks, and the ks from the catalog size upwards
KValues == (-1..3) \cup (Len(CATALOG)..MaxK)

NoUser == UserProfile("", "", "", "", 0, 0, <<>>)
NoProbe == [user |-> NoUser, item |-> CATALOG[1], picked |-> <<>>]

(* ------------------------------ selector ------------------------------ *)
\* best_score = -1
InitBestScore == -One

BetterOrEqual(total, best_score) == total >= best_score
\* parts["total"] > best_score
Better(total, best_score) == total > best_score

\* the inner loop "for f in candidates": index of best in cands, 0 for None
ScanBest(u, cands, pkd) ==
    LET Scan[n \in 0..Len(cands)] ==
            IF n = 0 THEN [idx |-> 0, score |-> InitBestScore]
            ELSE LET prev == Scan[n - 1]
                     parts == score_user_to_fragrance(u, cands[n], pkd)
                 IN  IF Better(parts.total, prev.score) /\ cands[n] \notin Range(pkd)
                     THEN [idx |-> n, score |-> parts.total]
                     ELSE prev
    IN  Scan[Len(cands)]

\* list.remove(x): drops the first element equal to x
RemovePopFirst(s, x) == Tail(s)
Remove(s, x) ==
    IF x \notin Range(s) THEN s
    ELSE LET j == CHOOSE n \in 1..Len(s) :
                      s[n] = x /\ \A m \in 1..(n - 1) : s[m] # x
         IN  SubSeq(s, 1, j - 1) \o SubSeq(s, j + 1, Len(s))

InRangeInclusive(n, kk) == n <= kk
\* "for _ in range(k)" has another iteration to run
InRange(n, kk) == n < kk

AliasesCatalog == TRUE
\* candidates = CATALOG[:] is a copy: removing from it leaves CATALOG alone
CandidatesAliasCatalog == FALSE

ResultEntry(best, best_parts, best_score, tieUp) ==
    [id |-> best.id,
     name |-> full_name(best),
     score |-> round3(best_score, tieUp),
     parts |-> [f \in DOMAIN best_parts |-> round3(best_parts[f], tieUp)],
     archetypes |-> best.archetypes]

(* ------------------------------- actions ------------------------------ *)
Init ==
    /\ catalog \in {SubSeq(CATALOG, 1, n) : n \in {0, 2, Len(CATALOG)}}
    /\ fpTieUp \in BOOLEAN
    /\ pc = "idle"
    /\ user = NoUser
    /\ k = 0
    /\ i = 0
    /\ picked = <<>>
    /\ candidates = <<>>
    /\ results = <<>>
    /\ outcome = "none"
    /\ explanations = <<>>
    /\ memo = <<>>
    /\ probe = NoProbe
    /\ probeParts = <<>>

\* recommend(u, kk) is entered: lines "picked = []" to "results = []".
\* An observer keeps the call it remembers or remembers the one just shown.
Call(u, kk) ==
    /\ pc \in {"idle", "shown"}
    /\ \E keep \in BOOLEAN :
           memo' = IF keep \/ pc = "idle" THEN memo
                   ELSE <<[user |-> user, k |-> k, results |-> results,
                           catalog |-> catalog]>>
    /\ pc' = "loop"
    /\ user' = u
    /\ k' = kk
    /\ i' = 0
    /\ picked' = <<>>
    /\ candidates' = catalog
    /\ results' = <<>>
    /\ outcome' = "none"
    /\ explanations' = <<>>
    /\ UNCHANGED <<catalog, fpTieUp, probe, probeParts>>

\* one iteration of the outer loop that finds a best candidate
Round ==
    /\ pc = "loop"
    /\ InRange(i, k)
    /\ LET b == ScanBest(user, candidates, picked)
       IN  /\ b.idx # 0
           /\ LET best == candidates[b.idx]
                  best_parts == score_user_to_fragrance(user, best, picked)
              IN  /\ picked' = Append(picked, best)
                  /\ results' = Append(results,
                                       ResultEntry(best, best_parts, b.score, fpTieUp))
                  /\ candidates' = Remove(candidates, best)
                  /\ catalog' = IF CandidatesAliasCatalog
                                THEN Remove(catalog, best) ELSE catalog
    /\ i' = i + 1
    /\ UNCHANGED <<fpTieUp, pc, user, k, outcome, explanations, memo, probe,
                   probeParts>>

\* "return results"
ReturnResults ==
    /\ pc' = "returned"
    /\ outcome' = "returned"
    /\ UNCHANGED <<catalog, fpTieUp, user, k, i, picked, candidates, results,
                   explanations, memo, probe, probeParts>>

\* "if best is None: break"
Break ==
    /\ pc = "loop"
    /\ InRange(i, k)
    /\ ScanBest(user, candidates, picked).idx = 0
    /\ ReturnResults

\* range(k) is exhausted (at once when k <= 0)
LoopExit ==
    /\ pc = "loop"
    /\ ~InRange(i, k)
    /\ ReturnResults

\* the page writes explain_pick(user, r) for every r in recs
Show ==
    /\ pc = "returned"
    /\ pc' = "shown"
    /\ explanations' = [j \in 1..Len(results) |-> explain_pick(user, results[j])]
    /\ UNCHANGED <<catalog, fpTieUp, user, k, i, picked, candidates, results,
                   outcome, memo, probe, probeParts>>

CallAny == \E u \in Users, kk \in KValues : Call(u, kk)

Next == CallAny \/ Round \/ Break \/ LoopExit \/ Show

Spec == Init /\ [][Next]_vars

(* ----------------------- fit-function runs ---------------------------- *)
\* one scoring call score_user_to_fragrance(user, item, picked) on inputs
\* drawn factor by factor: each fit function reads only its own fields
SeqsUpTo(S, n) == UNION {[1..m -> S] : m \in 0..n}

Climates == {"hot", "mild", "cool", "mixed", "tropical"}
SeasonLists == {<<>>, <<"hot">>, <<"mild", "hot">>, <<"hot", "mild", "cool">>,
                <<"tropical">>}
OccasionNames == {"office", "gym", "everyday", "brunch"}
OccasionLists == {<<>>, <<"office">>, <<"everyday">>, <<"date", "formal">>,
                  <<"office", "everyday", "date">>}
Intensities == {"skin", "moderate", "trail", "loud", ""}
Goals == {"short", "workday", "allday", "forever", ""}
Ratings == 1..5
PrefValues == {Pct(0), Pct(25), Pct(35), Pct(50), Pct(100)}
ItemValues == {Pct(0), Pct(45), Pct(100)}
Tags == {"elegant", "bold", "mysterious"}
AspirationLists == SeqsUpTo(Tags, MaxAspLen)
ArchetypeLists == {<<>>, <<"elegant">>, <<"bold", "mysterious", "elegant">>,
                   <<"refined", "approachable">>}
PickedLists == {<<>>} \cup {<<CATALOG[a]>> : a \in 1..Len(CATALOG)}
                 \cup {<<CATALOG[a], CATALOG[b]>> : a, b \in 1..3}

ProbeOf(u, f, pkd) == [user |-> u, item |-> f, picked |-> pkd]

ProbeCases ==
    {ProbeOf([DemoUser EXCEPT !.climate = c],
             [CATALOG[1] EXCEPT !.seasonality = sl], <<>>) :
        c \in Climates, sl \in SeasonLists}
    \cup {ProbeOf([DemoUser EXCEPT !.occasion = o],
                  [CATALOG[1] EXCEPT !.occasions = ol], <<>>) :
        o \in OccasionNames, ol \in OccasionLists}
    \cup {ProbeOf([DemoUser EXCEPT !.intensity = n, !.longevity_goal = g],
                  [CATALOG[1] EXCEPT !.sillage = r, !.longevity = r], <<>>) :
        n \in Intensities, g \in Goals, r \in Ratings}
    \cup {ProbeOf([DemoUser EXCEPT !.weight_pref = wp, !.brightness_pref = bp],
                  [CATALOG[1] EXCEPT !.weight = w, !.brightness = b], <<>>) :
        wp \in PrefValues, bp \in PrefValues, w \in ItemValues, b \in ItemValues}
    \cup {ProbeOf([DemoUser EXCEPT !.aspiration = a],
                  [CATALOG[1] EXCEPT !.archetypes = al], <<>>) :
        a \in AspirationLists, al \in ArchetypeLists}
    \cup {ProbeOf(DemoUser, [CATALOG[1] EXCEPT !.archetypes = al], pkd) :
        al \in ArchetypeLists, pkd \in PickedLists}
    \cup {ProbeOf(u, CATALOG[a], pkd) :
        u \in Users, a \in 1..Len(CATALOG), pkd \in PickedLists}

InitFit ==
    /\ catalog = CATALOG
    /\ fpTieUp = FALSE
    /\ pc = "probe"
    /\ user = NoUser
    /\ k = 0
    /\ i = 0
    /\ picked = <<>>
    /\ candidates = <<>>
    /\ results = <<>>
    /\ outcome = "none"
    /\ explanations = <<>>
    /\ memo = <<>>
    /\ probe \in ProbeCases
    /\ probeParts = <<>>

ScoreProbe ==
    /\ pc = "probe"
    /\ probeParts = <<>>
    /\ probeParts' = <<score_user_to_fragrance(probe.user, probe.item, probe.picked)>>
    /\ UNCHANGED <<catalog, fpTieUp, pc, user, k, i, picked, candidates,
                   results, outcome, explanations, memo, probe>>

NextFit == ScoreProbe

SpecFit == InitFit /\ [][NextFit]_vars

(* ============================== claims ================================ *)
Returned == pc \in {"returned", "shown"}
Ids(rs) == {rs[j].id : j \in 1..Len(rs)}
\* position of f in the list s (0 when absent)
IndexOf(s, f) == IF f \in Range(s) THEN CHOOSE n \in 1..Len(s) : s[n] = f ELSE 0
\* the picks made before round j
Earlier(j) == SubSeq(picked, 1, j - 1)
\* what a round scores against its earlier picks
TotalIn(j, f) == score_user_to_fragrance(user, f, Earlier(j)).total

\* C1: for k >= 0 recommend never holds more than k entries, and no two
\* entries carry the same item identifier.
C1_AtMostKDistinct ==
    (pc # "idle" /\ k >= 0) =>
        /\ Len(results) <= k
        /\ \A a, b \in 1..Len(results) : a # b => results[a].id # results[b].id

C1_Witness ==
    pc = "returned" /\ k = 3 /\ Len(catalog) = 9 /\ Len(results) = 3

\* C2: with k at least the catalog size the returned list holds every catalog
\* item exactly once and the call ends normally; with k = 0 or an empty
\* catalog it returns the empty list.
C2_AllItemsOnce ==
    Returned =>
        /\ k >= Len(catalog) =>
              /\ Len(results) = Len(catalog)
              /\ Ids(results) = {catalog[n].id : n \in 1..Len(catalog)}
              /\ Cardinality(Ids(results)) = Len(results)
              /\ outcome = "returned"
        /\ (k = 0 \/ Len(catalog) = 0) => (results = <<>> /\ outcome = "returned")

C2_Witness ==
    pc = "returned" /\ k = 10 /\ i = 9 /\ Len(catalog) = 9 /\ Len(results) = 9

\* C3 (as claimed): recommend with a negative k ends in a failure and
\* returns no list.
C3_NegativeKRaises ==
    (Returned /\ k < 0) => outcome = "raised"

\* C4: the item each round appends is a remaining candidate whose total,
\* scored against the earlier picks, is at least that of every other remaining
\* candidate, and among the candidates sharing that total it comes first in
\* catalog order.
C4_GreedyFirstMax ==
    pc # "idle" =>
        \A j \in 1..Len(picked) :
            LET remaining == Range(catalog) \ Range(Earlier(j))
            IN  /\ picked[j] \in remaining
                /\ \A f \in remaining :
                      /\ TotalIn(j, f) <= TotalIn(j, picked[j])
                      /\ TotalIn(j, f) = TotalIn(j, picked[j])
                           => IndexOf(catalog, picked[j]) <= IndexOf(catalog, f)

C4_Witness ==
    /\ pc = "returned" /\ user = TieUser /\ Len(catalog) = 9 /\ Len(picked) >= 2
    /\ picked[1].id = "1"
    /\ TotalIn(1, CATALOG[7]) = TotalIn(1, picked[1])
    /\ picked[2].id = "7"
    /\ TotalIn(2, picked[2]) # TotalIn(1, picked[2])

\* the weights the claim names, in hundredths
ClaimWeights ==
    [climate |-> 20, occasion |-> 15, intensity |-> 15, longevity |-> 15,
     latent |-> 20, aspiration |-> 10, diversity |-> 5]
\* 100 times the weighted sum of the sub-scores an entry reports
ReportedSum100(r) ==
    ClaimWeights.climate * r.parts.climate + ClaimWeights.occasion * r.parts.occasion
    + ClaimWeights.intensity * r.parts.intensity
    + ClaimWeights.longevity * r.parts.longevity
    + ClaimWeights.latent * r.parts.latent
    + ClaimWeights.aspiration * r.parts.aspiration
    + ClaimWeights.diversity * r.parts.diversity

\* C5 (as claimed): every entry's reported total equals exactly the weighted
\* sum of the seven sub-scores its breakdown reports.
C5_ExactWeightedSum ==
    \A j \in 1..Len(results) : 100 * results[j].score = ReportedSum100(results[j])

\* C5 (amended): every entry's reported total is the weighted sum of the seven
\* sub-scores before rounding, rounded to three decimals, is the breakdown's
\* own total, and lies within 0.001 of the weighted sum of the reported
\* sub-scores.
C5_RoundedWeightedSum ==
    \A j \in 1..Len(results) :
        LET raw == score_user_to_fragrance(user, picked[j], Earlier(j))
            exact100 == ClaimWeights.climate * raw.climate
                        + ClaimWeights.occasion * raw.occasion
                        + ClaimWeights.intensity * raw.intensity
                        + ClaimWeights.longevity * raw.longevity
                        + ClaimWeights.latent * raw.latent
                        + ClaimWeights.aspiration * raw.aspiration
                        + ClaimWeights.diversity * raw.diversity
        IN  /\ results[j].score = round3(exact100 \div 100, fpTieUp)
            /\ exact100 % 100 = 0
            /\ results[j].score = results[j].parts.total
            /\ Abs(100 * results[j].score - ReportedSum100(results[j])) <= 100 * Milli

C5_Witness ==
    /\ pc = "returned" /\ user = DemoUser /\ k = 3 /\ Len(catalog) = 9
    /\ Len(results) = 3
    /\ results[1].id = "8"
    /\ 100 * results[2].score # ReportedSum100(results[2])

\* the mood phrase the claim gives for an intensity
ClaimedMood(intensity) ==
    CASE intensity = "skin" -> "skin-close"
      [] intensity = "moderate" -> "moderately projecting"
      [] intensity = "trail" -> "leaves a trail"
      [] OTHER -> "moderately projecting"

\* C6 (as claimed): explain_pick renders "skin-close" for skin, "moderately
\* projecting" for moderate, "leaves a trail" for trail and "moderately
\* projecting" for every other intensity.
C6_MoodPhrase ==
    pc = "shown" =>
        \A j \in 1..Len(explanations) :
            explanations[j].mood = ClaimedMood(user.intensity)

\* C7: a call with the same profile and the same k as a remembered earlier
\* call returns the same ordered list, whatever calls ran in between, and the
\* catalog is what it was when that call returned.
C7_Idempotent ==
    memo # <<>> =>
        /\ memo[1].catalog = catalog
        /\ (Returned /\ memo[1].user = user /\ memo[1].k = k)
              => memo[1].results = results

C7_Witness ==
    /\ pc = "returned" /\ memo # <<>> /\ memo[1].user = user /\ memo[1].k = k
    /\ k = 3 /\ Len(results) = 3 /\ user = MixedUser

\* C8: for valid items and profiles each of the seven fit functions returns
\* a value within [0,1].
C8_FitsInUnitInterval ==
    probeParts # <<>> =>
        \A n \in 1..Len(Factors) :
            /\ probeParts[1][Factors[n]] >= 0
            /\ probeParts[1][Factors[n]] <= One

C8_Witness ==
    /\ probeParts # <<>>
    /\ probe.user.weight_pref = Pct(100) /\ probe.item.weight = Pct(0)
    /\ probe.user.brightness_pref = Pct(100) /\ probe.item.brightness = Pct(0)
    /\ probeParts[1].latent = 0

KnownIntensities == {"skin", "moderate", "trail"}
KnownGoals == {"short", "workday", "allday"}
KnownClimates == {"hot", "mild", "cool", "mixed"}

\* C9: unrecognized categorical values raise nothing and score by the
\* defaults: an unknown intensity as target sillage 3, an unknown
\* longevity_goal as target 4, an unknown climate 0.3 for items whose
\* seasonality lacks it, an unmatched occasion 0.6 or 0.2; and recommend
\* returns its normal list.
C9_DefaultsForUnknownValues ==
    /\ \A j \in 1..Len(results) :
          LET f == picked[j]
              p == results[j].parts
          IN  /\ user.intensity \notin KnownIntensities
                   => p.intensity = One - Abs(f.sillage - 3) * (One \div 4)
              /\ user.longevity_goal \notin KnownGoals
                   => p.longevity = One - Abs(f.longevity - 4) * (One \div 4)
              /\ (user.climate \notin KnownClimates
                    /\ user.climate \notin Range(f.seasonality))
                   => p.climate = Pct(30)
              /\ user.occasion \notin Range(f.occasions)
                   => p.occasion \in {Pct(60), Pct(20)}
    /\ Returned =>
          /\ outcome = "returned"
          /\ Len(results) = Min(Max(k, 0), Len(catalog))

C9_Witness ==
    /\ pc = "returned" /\ user = OddUser /\ k = 9 /\ Len(results) = 9
    /\ outcome = "returned"

\* C10 (as claimed): for a non-empty aspiration list aspiration_fit is the
\* number of distinct aspiration tags among the item's archetypes divided by
\* the number of distinct aspiration tags; for an empty one it is 0.5.
C10_AspirationAsSet ==
    probeParts # <<>> =>
        LET wanted == Range(probe.user.aspiration)
            hit == wanted \cap Range(probe.item.archetypes)
        IN  IF wanted = {} THEN probeParts[1].aspiration = Pct(50)
            ELSE probeParts[1].aspiration
                   = (Cardinality(hit) * One) \div Cardinality(wanted)

\* C11: the total scores of the returned entries never increase with rank:
\* the entry at rank j+1 reports no greater a score than the entry at rank j,
\* and the same holds of the totals before rounding, although each round
\* re-scores the remaining candidates against the earlier picks.
C11_ScoresNonIncreasing ==
    pc # "idle" =>
        \A j \in 1..(Len(results) - 1) :
            /\ results[j + 1].score <= results[j].score
            /\ results[j + 1].parts.total <= results[j].parts.total
            /\ TotalIn(j + 1, picked[j + 1]) <= TotalIn(j, picked[j])

C11_Witness ==
    /\ pc = "returned" /\ user = TieUser /\ k = 9 /\ Len(results) = 9
    /\ TotalIn(2, picked[2]) < TotalIn(1, picked[2])
    /\ results[2].score < results[1].score
    /\ results[5].score = results[4].score

====
